---- MODULE Spec2Model ----
(***************************************************************************)
(* The stacking core of the BAF stack optimizer (src/app.py, lines 62-160): *)
(* cleaning of the uploaded table, grade normalization, grouping by         *)
(* normalized grade, the greedy pass loop per group, the waiting list and   *)
(* the summary record.                                                      *)
(***************************************************************************)
EXTENDS Integers, Sequences, FiniteSets, TLC

\* ---------------------------------------------------------------- constants
MAX_STACK_HEIGHT == 4450
MAX_STACK_WEIGHT == 75
MIN_COILS == 4
MAX_COILS == 5
\* the threshold of the "Stacks < 4000 mm" counter
HEIGHT_SPLIT == 4000

\* ------------------------------------------------------------------- bounds
\* largest number of rows of an uploaded table
MaxRows == 5

VARIABLES
    rows,               \* the uploaded table, one record of raw cells per row
    df,                 \* the table after cleaning and grade normalization
    total_input_coils,
    keys,               \* group keys the groupby loop has still to visit
    grade,              \* key of the group being processed
    group,              \* the group, sorted by width descending, re-indexed
    used,
    stacks,
    waiting,
    stack_4_count,
    stack_5_count,
    stack_lt_4000,
    stack_ge_4000,
    summary_dict,
    passes,             \* full scans of the current group completed so far
    pc

vars == << rows, df, total_input_coils, keys, grade, group, used, stacks, waiting,
           stack_4_count, stack_5_count, stack_lt_4000, stack_ge_4000,
           summary_dict, passes, pc >>

\* ------------------------------------------------------------ the raw table
\* A raw cell of a numeric column: a number, or text that is no number.
Num(n) == [num |-> TRUE, v |-> n]
Text == [num |-> FALSE, v |-> 0]
\* The value pandas reads from an empty Grade cell.
NaN == "NaN"

Row(w, t, g) == [Width |-> w, Weight |-> t, Grade |-> g]

\* pd.to_numeric(errors='coerce'): a number stays, anything else becomes NaN
ToNumeric(cell) == IF cell.num THEN [nan |-> FALSE, v |-> cell.v]
                               ELSE [nan |-> TRUE, v |-> 0]

\* NormalizeGrade with the TS-480 entry of the mapping left out
NormalizeGradeNoTS480(g) ==
    CASE g = "DR-08" -> "T-57"
      [] g = "DR-75" -> "T-57"
      [] OTHER -> g

\* Series.replace with the three-entry mapping: other values stay
NormalizeGrade(g) ==
    CASE g = "DR-08" -> "T-57"
      [] g = "TS-480" -> "T-57"
      [] g = "DR-75" -> "T-57"
      [] OTHER -> g

\* df.dropna(subset=['Width','Weight'])
Survives(r) == ~ToNumeric(r.Width).nan /\ ~ToNumeric(r.Weight).nan

\* The cleaned, annotated table. id is the position of the row in the upload.
CleanTable(t) ==
    LET all == [k \in 1..Len(t) |->
                  [id |-> k,
                   Width |-> ToNumeric(t[k].Width).v,
                   Weight |-> ToNumeric(t[k].Weight).v,
                   OriginalGrade |-> t[k].Grade,
                   NormalizedGrade |-> NormalizeGrade(t[k].Grade),
                   ok |-> Survives(t[k])]]
        kept == SelectSeq(all, LAMBDA r : r.ok)
    IN  [k \in 1..Len(kept) |->
            [id |-> kept[k].id, Width |-> kept[k].Width, Weight |-> kept[k].Weight,
             OriginalGrade |-> kept[k].OriginalGrade,
             NormalizedGrade |-> kept[k].NormalizedGrade]]

\* ---------------------------------------------------------------- groupby
\* The grade labels of the model in the order groupby sorts its keys.
SortedGrades == << "CRCA", "DR-08", "DR-75", "T-57", "TS-480" >>

Range(s) == {s[k] : k \in DOMAIN s}

\* df.groupby("Normalized Grade"): keys sorted, rows whose key is NaN left out
GroupKeys(d) ==
    SelectSeq(SortedGrades,
              LAMBDA g : g # NaN /\ \E k \in DOMAIN d : d[k].NormalizedGrade = g)

\* the rows of one group, in table order
GroupRows(d, g) == SelectSeq(d, LAMBDA r : r.NormalizedGrade = g)

\* sort_values(by="Width", ascending=False) with the default kind (quicksort):
\* the result is ordered by width descending; the order of equal widths is
\* whatever the sorting routine leaves, so every such order is an outcome.
\* SortOrders(g, I): the orders in which the positions I of g can come out.
RECURSIVE SortOrders(_, _)
SortOrders(g, I) ==
    IF I = {} THEN { << >> }
    ELSE LET top == {k \in I : \A j \in I : g[j].Width <= g[k].Width}
         IN  UNION { { << k >> \o rest : rest \in SortOrders(g, I \ {k}) } : k \in top }

\* .reset_index(drop=True): the sorted rows, numbered from the first on
SortOutcomes(g) ==
    { [k \in 1..Len(g) |-> g[p[k]]] : p \in SortOrders(g, DOMAIN g) }

\* ------------------------------------------------------------- the scan
\* Eligible with the count ceiling taken to be MIN_COILS
EligibleUpToMin(u, s) == ~u /\ Len(s) < MIN_COILS

\* line 99: the coil is looked at only if unused and the stack is not full
Eligible(u, s) == ~u /\ Len(s) < MAX_COILS

\* Fits with the weight condition left out
FitsWidthOnly(tw, twt, coil) == tw + coil.Width <= MAX_STACK_HEIGHT

\* Fits with the width condition left out
FitsWeightOnly(tw, twt, coil) == twt + coil.Weight <= MAX_STACK_WEIGHT

\* lines 105-106
Fits(tw, twt, coil) ==
    /\ tw + coil.Width <= MAX_STACK_HEIGHT
    /\ twt + coil.Weight <= MAX_STACK_WEIGHT

\* lines 107-111; id is kept beside the three fields the code stores
StackCoil(r) == [id |-> r.id, Width |-> r.Width, Weight |-> r.Weight,
                 Grade |-> r.OriginalGrade]

\* lines 93-96: the empty candidate a pass starts from
EmptyCandidate == [stack |-> << >>, total_width |-> 0, total_weight |-> 0,
                   stack_indices |-> << >>]

\* lines 99-114: the body of the inner for loop at position k
ScanStep(g, u, k, c) ==
    IF Eligible(u[k], c.stack) /\ Fits(c.total_width, c.total_weight, g[k])
    THEN [stack |-> Append(c.stack, StackCoil(g[k])),
          total_width |-> c.total_width + g[k].Width,
          total_weight |-> c.total_weight + g[k].Weight,
          stack_indices |-> Append(c.stack_indices, k)]
    ELSE c

\* line 98: for i in range(len(group)), from position k on
RECURSIVE ScanFrom(_, _, _, _)
ScanFrom(g, u, k, c) ==
    IF k > Len(g) THEN c ELSE ScanFrom(g, u, k + 1, ScanStep(g, u, k, c))

\* lines 93-114: the candidate one full scan of the group builds
Scan(g, u) == ScanFrom(g, u, 1, EmptyCandidate)

\* Committable with any non-empty candidate accepted
CommittableNonEmpty(s) == Len(s) >= 1

\* line 117
Committable(s) == Len(s) >= MIN_COILS

\* IsLt4000 with <= for <
IsLe4000(w) == w <= HEIGHT_SPLIT

\* line 134
IsLt4000(w) == w < HEIGHT_SPLIT

\* lines 145-149
WaitingCoil(r) == [id |-> r.id, Grade |-> r.OriginalGrade, Width |-> r.Width,
                   Weight |-> r.Weight]

\* ------------------------------------------------------------------ inputs
\* Tables of one grade whose rows differ in size, and tables of one size
\* class whose rows differ in the grade cell and in validity.
PackingRows ==
    { Row(Num(2000), Num(10), "T-57"), Row(Num(800), Num(10), "T-57"),
      Row(Num(800), Num(20), "T-57"), Row(Num(790), Num(-30), "T-57"),
      Row(Num(-800), Num(10), "T-57") }
GradeRows ==
    { Row(Num(900), Num(10), "DR-08"), Row(Num(800), Num(10), "TS-480"),
      Row(Num(850), Num(10), "CRCA"), Row(Num(700), Num(10), NaN),
      Row(Text, Num(10), "T-57") }

SeqsUpTo(S, n) == UNION { [1..m -> S] : m \in 0..n }

Perms(n) == {p \in [1..n -> 1..n] : \A a, b \in 1..n : a # b => p[a] # p[b]}

\* The tables of the specification's scenarios.
\* Scenario 1: five coils of one grade, in every row order.
Scenario1Widths == << 2000, 1800, 1000, 900, 800 >>
Scenario1Tables ==
    { [k \in 1..5 |-> Row(Num(Scenario1Widths[p[k]]), Num(10), g)] :
        p \in Perms(5), g \in {"T-57", "DR-08", "CRCA"} }
\* Scenario 2: three coils of one grade.
Scenario2Table == [k \in 1..3 |-> Row(Num(800), Num(10), "T-57")]
\* Scenario 3: eight equal coils of one grade.
Scenario3Table == [k \in 1..8 |-> Row(Num(500), Num(9), "T-57")]
\* Scenario 4: DR-08 and TS-480 rows, alternating.
Scenario4Table ==
    [k \in 1..4 |-> Row(Num(1000), Num(10), IF k % 2 = 1 THEN "DR-08" ELSE "TS-480")]
\* Scenario 5: a row whose width is the text N/A, among four good rows.
Scenario5Table ==
    [k \in 1..5 |-> Row(IF k = 2 THEN Text ELSE Num(1000), Num(10), "T-57")]
\* A table with two groups, one of them long enough for two committed stacks:
\* eight rows of canonical grade T-57 under its four raw labels, five of CRCA.
RawT57 == << "T-57", "DR-75", "DR-08", "TS-480" >>
TwoPassTable ==
    [k \in 1..13 |->
        IF k <= 8 THEN Row(Num(1120 - 10 * k), Num(10), RawT57[(k % 4) + 1])
                  ELSE Row(Num(700), Num(10), "CRCA")]

ScenarioTables ==
    Scenario1Tables \cup { Scenario2Table, Scenario3Table, Scenario4Table,
                           Scenario5Table, TwoPassTable }

InitRun ==
    /\ df = << >>
    /\ total_input_coils = 0
    /\ keys = << >>
    /\ grade = NaN
    /\ group = << >>
    /\ used = << >>
    /\ stacks = << >>
    /\ waiting = << >>
    /\ stack_4_count = 0
    /\ stack_5_count = 0
    /\ stack_lt_4000 = 0
    /\ stack_ge_4000 = 0
    /\ summary_dict = [TotalInputCoils |-> 0, TotalStacks |-> 0, Stacks4 |-> 0,
                       Stacks5 |-> 0, StacksLt4000 |-> 0, StacksGe4000 |-> 0]
    /\ passes = 0
    /\ pc = "clean"

Init ==
    /\ rows \in SeqsUpTo(PackingRows, MaxRows) \cup SeqsUpTo(GradeRows, MaxRows)
                  \cup ScenarioTables
    /\ InitRun

\* ----------------------------------------------------------------- actions
\* lines 63-84: cleaning, normalization, initialization
Clean ==
    /\ pc = "clean"
    /\ df' = CleanTable(rows)
    /\ total_input_coils' = Len(df')
    /\ keys' = GroupKeys(df')
    /\ pc' = "groupby"
    /\ UNCHANGED << rows, grade, group, used, stacks, waiting, stack_4_count,
                    stack_5_count, stack_lt_4000, stack_ge_4000, summary_dict,
                    passes >>

\* lines 87-89: the next group, sorted and re-indexed, nothing used
NextGroup ==
    /\ pc = "groupby"
    /\ keys # << >>
    /\ grade' = Head(keys)
    /\ keys' = Tail(keys)
    /\ group' \in SortOutcomes(GroupRows(df, Head(keys)))
    /\ used' = [k \in 1..Len(group') |-> FALSE]
    /\ passes' = 0
    /\ pc' = "pass"
    /\ UNCHANGED << rows, df, total_input_coils, stacks, waiting, stack_4_count,
                    stack_5_count, stack_lt_4000, stack_ge_4000, summary_dict >>

\* lines 92-137: a pass whose candidate is long enough is committed
Commit ==
    /\ pc = "pass"
    /\ \E c \in {Scan(group, used)} :
           /\ Committable(c.stack)
           /\ used' = [k \in DOMAIN used |-> used[k] \/ k \in Range(c.stack_indices)]
           /\ stacks' = Append(stacks, [Grade |-> grade,
                                        TotalWidth |-> c.total_width,
                                        TotalWeight |-> c.total_weight,
                                        Coils |-> c.stack])
           /\ stack_4_count' = IF Len(c.stack) = 4 THEN stack_4_count + 1
                                                   ELSE stack_4_count
           /\ stack_5_count' = IF Len(c.stack) # 4 /\ Len(c.stack) = 5
                               THEN stack_5_count + 1 ELSE stack_5_count
           /\ stack_lt_4000' = IF IsLt4000(c.total_width) THEN stack_lt_4000 + 1
                                                          ELSE stack_lt_4000
           /\ stack_ge_4000' = IF IsLt4000(c.total_width) THEN stack_ge_4000
                                                          ELSE stack_ge_4000 + 1
    /\ passes' = passes + 1
    /\ UNCHANGED << rows, df, total_input_coils, keys, grade, group, waiting,
                    summary_dict, pc >>

\* lines 92-116, 138-140: a pass whose candidate is too short ends the loop
Break ==
    /\ pc = "pass"
    /\ ~Committable(Scan(group, used).stack)
    /\ passes' = passes + 1
    /\ pc' = "waiting"
    /\ UNCHANGED << rows, df, total_input_coils, keys, grade, group, used, stacks,
                    waiting, stack_4_count, stack_5_count, stack_lt_4000,
                    stack_ge_4000, summary_dict >>

\* lines 143-149: every unused coil of the group goes to the waiting list
MarkWaiting ==
    /\ pc = "waiting"
    /\ LET idx == SelectSeq([k \in 1..Len(group) |-> k], LAMBDA k : ~used[k])
       IN  waiting' = waiting \o [k \in 1..Len(idx) |-> WaitingCoil(group[idx[k]])]
    /\ pc' = "groupby"
    /\ UNCHANGED << rows, df, total_input_coils, keys, grade, group, used, stacks,
                    stack_4_count, stack_5_count, stack_lt_4000, stack_ge_4000,
                    summary_dict, passes >>

\* lines 153-160: the summary record, once the groupby loop is over
Summarize ==
    /\ pc = "groupby"
    /\ keys = << >>
    /\ summary_dict' = [TotalInputCoils |-> total_input_coils,
                        TotalStacks |-> Len(stacks),
                        Stacks4 |-> stack_4_count,
                        Stacks5 |-> stack_5_count,
                        StacksLt4000 |-> stack_lt_4000,
                        StacksGe4000 |-> stack_ge_4000]
    /\ pc' = "done"
    /\ UNCHANGED << rows, df, total_input_coils, keys, grade, group, used, stacks,
                    waiting, stack_4_count, stack_5_count, stack_lt_4000,
                    stack_ge_4000, passes >>

Next == Clean \/ NextGroup \/ Commit \/ Break \/ MarkWaiting \/ Summarize

Spec == Init /\ [][Next]_vars

\* ------------------------------------------------------------------ claims
RECURSIVE SumOf(_, _)
SumOf(f, k) == IF k = 0 THEN 0 ELSE f[k] + SumOf(f, k - 1)
SumWidth(coils) == SumOf([k \in DOMAIN coils |-> coils[k].Width], Len(coils))
SumWeight(coils) == SumOf([k \in DOMAIN coils |-> coils[k].Weight], Len(coils))

\* C2: at every point of the run every committed stack has between 4 and 5
\* coils, a Total Width that is the sum of its coils' widths and at most 4450,
\* and a Total Weight that is the sum of its coils' weights and at most 75.
C2_ConstraintSatisfaction ==
    \A n \in DOMAIN stacks :
        /\ Len(stacks[n].Coils) >= 4
        /\ Len(stacks[n].Coils) <= 5
        /\ stacks[n].TotalWidth = SumWidth(stacks[n].Coils)
        /\ stacks[n].TotalWidth <= 4450
        /\ stacks[n].TotalWeight = SumWeight(stacks[n].Coils)
        /\ stacks[n].TotalWeight <= 75

\* the end of a run that committed 4-coil and 5-coil stacks, one over 4000 mm
C2_Witness ==
    /\ pc = "done"
    /\ \E n \in DOMAIN stacks : Len(stacks[n].Coils) = 4
    /\ \E n \in DOMAIN stacks : Len(stacks[n].Coils) = 5
    /\ \E n \in DOMAIN stacks : stacks[n].TotalWidth > 4000

\* The mapping of the grade normalization as the claim C6 states it.
CanonicalGrade(g) == IF g \in {"DR-08", "TS-480", "DR-75"} THEN "T-57" ELSE g

\* C6: the members of every committed stack have the same canonical grade,
\* which is the stack's Grade: the mapping {DR-08, TS-480, DR-75 -> T-57,
\* anything else -> itself} of each member's raw grade gives the stack's Grade.
C6_GradeHomogeneity ==
    \A n \in DOMAIN stacks :
        \A k \in DOMAIN stacks[n].Coils :
            CanonicalGrade(stacks[n].Coils[k].Grade) = stacks[n].Grade

\* a stack that holds coils of different raw grades, with another grade's
\* stack beside it
C6_Witness ==
    /\ \E n \in DOMAIN stacks :
          /\ \E k \in DOMAIN stacks[n].Coils : stacks[n].Coils[k].Grade = "DR-08"
          /\ \E k \in DOMAIN stacks[n].Coils : stacks[n].Coils[k].Grade = "TS-480"
    /\ \E n \in DOMAIN stacks : stacks[n].Grade # "T-57"

\* The counts of the summary, taken over the list of stacks.
CountWithCoils(n) == Cardinality({k \in DOMAIN stacks : Len(stacks[k].Coils) = n})
CountBelow4000 == Cardinality({k \in DOMAIN stacks : stacks[k].TotalWidth < 4000})
CountAtLeast4000 == Cardinality({k \in DOMAIN stacks : stacks[k].TotalWidth >= 4000})

\* C8: at the end of the run the counters of the summary equal the counts
\* taken over the final list of stacks (stacks of 4, stacks of 5, stacks
\* under 4000 mm, stacks of at least 4000 mm), and both pairs add up to
\* Total Stacks.
C8_SummaryIsRecount ==
    pc = "done" =>
        /\ summary_dict.TotalStacks = Len(stacks)
        /\ summary_dict.Stacks4 = CountWithCoils(4)
        /\ summary_dict.Stacks5 = CountWithCoils(5)
        /\ summary_dict.StacksLt4000 = CountBelow4000
        /\ summary_dict.StacksGe4000 = CountAtLeast4000
        /\ summary_dict.Stacks4 + summary_dict.Stacks5 = summary_dict.TotalStacks
        /\ summary_dict.StacksLt4000 + summary_dict.StacksGe4000
             = summary_dict.TotalStacks

\* the end of a run whose four counters are all positive
C8_Witness ==
    /\ pc = "done"
    /\ summary_dict.Stacks4 >= 2
    /\ summary_dict.Stacks5 >= 1
    /\ summary_dict.StacksLt4000 >= 1
    /\ summary_dict.StacksGe4000 >= 1

\* The number of places a row holds: positions in committed stacks plus
\* positions in the waiting list.
PlacesInStacks(id) ==
    Cardinality({ << n, k >> \in (DOMAIN stacks) \X (1..MAX_COILS) :
                    k \in DOMAIN stacks[n].Coils /\ stacks[n].Coils[k].id = id })
PlacesInWaiting(id) == Cardinality({k \in DOMAIN waiting : waiting[k].id = id})

\* C1: after the run every row that survived cleaning is in exactly one
\* place: a member of exactly one committed stack, or once in the waiting
\* list; never in both, never in two stacks, never in neither.
C1_PartitionCompleteness ==
    pc = "done" =>
        \A k \in DOMAIN df : PlacesInStacks(df[k].id) + PlacesInWaiting(df[k].id) = 1

\* C10: the summary's Total Input Coils equals the number of member coils of
\* all committed stacks plus the length of the waiting list, that is
\* 4 * (4-Coil Stacks) + 5 * (5-Coil Stacks) + |waiting|.
C10_CoilConservation ==
    pc = "done" =>
        summary_dict.TotalInputCoils
          = 4 * summary_dict.Stacks4 + 5 * summary_dict.Stacks5 + Len(waiting)

\* C9: every group is scanned in order of width descending, and two coils of
\* equal width in their input-row order (the sort is stable).
C9_StableScanOrder ==
    \A a, b \in DOMAIN group :
        a < b => \/ group[a].Width > group[b].Width
                 \/ group[a].Width = group[b].Width /\ group[a].id < group[b].id

\* The stack the last pass committed, in the state right after the commit.
JustCommitted == pc = "pass" /\ passes >= 1
LastStack == stacks[Len(stacks)]
CannotBeAdded(S, coil) ==
    \/ Len(S.Coils) = 5
    \/ S.TotalWidth + coil.Width > 4450
    \/ S.TotalWeight + coil.Weight > 75
NonNegativeGroup == \A k \in DOMAIN group : group[k].Width >= 0 /\ group[k].Weight >= 0

\* C3 as stated: right after a stack S is committed, no coil of the group
\* that is still unused can be added to S: S has 5 coils, or the coil takes
\* the width over 4450, or the weight over 75.
C3_GreedyMaximality ==
    JustCommitted =>
        \A j \in DOMAIN group : ~used[j] => CannotBeAdded(LastStack, group[j])

\* C3 amended: the same, for groups none of whose coils has a negative width
\* or a negative weight.
C3_GreedyMaximalityNonNegative ==
    (JustCommitted /\ NonNegativeGroup) =>
        \A j \in DOMAIN group : ~used[j] => CannotBeAdded(LastStack, group[j])

\* a 4-coil stack was just committed in a group without negative values, and
\* a coil of the group is left unused
C3_Witness ==
    /\ JustCommitted
    /\ NonNegativeGroup
    /\ Len(LastStack.Coils) = 4
    /\ \E j \in DOMAIN group : ~used[j]

Unused(u) == Cardinality({k \in DOMAIN u : ~u[k]})
CeilDiv(n, d) == (n + d - 1) \div d

\* C4 as stated: the passes executed for a group of size n number at most
\* ceil(n / 4).
C4_PassBoundCeil == passes <= CeilDiv(Len(group), 4)

\* C4 amended: every pass either commits a stack, which takes at least 4
\* coils out of the unused ones, or ends the processing of the group, and the
\* passes executed for a group of size n number at most floor(n / 4) + 1.
C4_PassBound ==
    /\ [](passes <= (Len(group) \div 4) + 1)
    /\ [][(pc = "pass" /\ passes' = passes + 1) =>
            \/ /\ Len(stacks') = Len(stacks) + 1
               /\ Unused(used') + 4 <= Unused(used)
               /\ pc' = "pass"
            \/ /\ stacks' = stacks
               /\ pc' = "waiting"]_vars

\* the loop of a group of at least 4 coils has ended with the bound attained
C4_Witness ==
    /\ pc = "waiting"
    /\ Len(group) >= 4
    /\ passes = (Len(group) \div 4) + 1

\* The table of scenario 1: the five widths, weight 10 each, one grade.
IsScenario1(t) ==
    /\ Len(t) = 5
    /\ \A w \in {2000, 1800, 1000, 900, 800} : \E k \in DOMAIN t : t[k].Width = Num(w)
    /\ \A k \in DOMAIN t : t[k].Weight = Num(10) /\ t[k].Grade = t[1].Grade
    /\ t[1].Grade # NaN

\* C5 as stated: on the table of scenario 1 the run commits a 4-coil stack
\* within the width ceiling, and the waiting list holds the excluded coil.
C5_Scenario1FourCoilStack ==
    (pc = "done" /\ IsScenario1(rows)) =>
        /\ Len(stacks) = 1
        /\ Len(stacks[1].Coils) = 4
        /\ stacks[1].TotalWidth <= 4450
        /\ Len(waiting) = 1

\* C5 amended: on the table of scenario 1 the run commits no stack, and the
\* waiting list holds all five coils.
C5_Scenario1NoStack ==
    (pc = "done" /\ IsScenario1(rows)) =>
        /\ stacks = << >>
        /\ Len(waiting) = 5
        /\ \A id \in 1..5 : PlacesInWaiting(id) = 1

\* the end of a run on the table of scenario 1
C5_Witness == pc = "done" /\ IsScenario1(rows)

====
